---- MODULE Spec2Model ----
(***************************************************************************)
(* EJTP Router (src/ejtp/router.py): registries of jacks and clients, the  *)
(* run/stop lifecycle, recv() dispatch and the activity log.               *)
(***************************************************************************)
EXTENDS Integers, Sequences, FiniteSets, TLC

VARIABLES
    runstate,   \* Router.runstate
    _jacks,     \* Router._jacks   : canonical (type, location) key -> jack
    _clients,   \* Router._clients : canonical (type, location, id) key -> client
    logging,    \* Router.logging
    log,        \* Router.log
    running,    \* per jack object: run_threaded() called since its last close()
    op,         \* the call made last on the router, with its argument
    calls,      \* the calls that operation made on jacks and clients, in order
    result,     \* how that operation ended: "returned" or "raised"
    th,         \* per thread: the router call it is executing, and where it is
    input,      \* the argument of a call of deserialize or rtuple
    output      \* what that call returned or raised

vars == <<runstate, _jacks, _clients, logging, log, running, op, calls, result,
          th, input, output>>

\* What the calls made one at a time on the router leave alone.
others == <<th, input, output>>

----------------------------------------------------------------------------
(* Bounds of the model. *)

\* Recv is explored while the log holds fewer than MaxLog entries.
MaxLog == 1
\* The same, where only recv and the logging switch are explored.
MaxLogSeq == 3
\* rtuple is applied to values nested at most MaxDepth deep.
MaxDepth == 2
\* The constructor is given at most MaxInit jacks and at most MaxInit clients.
MaxInit == 2

----------------------------------------------------------------------------
(* Python values: scalars, lists and tuples, kept apart because a list     *)
(* never equals a tuple and only tuples are usable as dictionary keys.     *)

Scalar(s) == [k |-> "scalar", s |-> s, v |-> <<>>]
List(items) == [k |-> "list", s |-> "", v |-> items]
Tuple(items) == [k |-> "tuple", s |-> "", v |-> items]
None == Scalar("None")

\* obj[:n] on a list or tuple: same container type, at most n leading items.
Slice(obj, n) ==
    [obj EXCEPT !.v = SubSeq(obj.v, 1, IF Len(obj.v) < n THEN Len(obj.v) ELSE n)]

\* rtuple converting the outermost list only.
rtuple_shallow(obj) ==
    IF obj.k \in {"list", "tuple"} THEN Tuple(obj.v) ELSE obj

RECURSIVE rtuple(_)
\* router.py rtuple: convert lists into tuples recursively.
rtuple(obj) ==
    IF obj.k \in {"list", "tuple"}
    THEN Tuple([i \in 1..Len(obj.v) |-> rtuple(obj.v[i])])
    ELSE obj

----------------------------------------------------------------------------
(* The objects handed to the router. *)

NoObj == "None"

Jacks == {"J1", "J2", "J3", "J4"}
Clients == {"CA", "CB"}

\* jack.interface
JackInterface(j) ==
    CASE j = "J1" -> List(<<Scalar("udp"), List(<<Scalar("9.9.9.9"), Scalar("555")>>)>>)
      [] j = "J2" -> Tuple(<<Scalar("udp"), Scalar("8.8.8.8")>>)
      [] j = "J3" -> Tuple(<<Scalar("udp"), Tuple(<<Scalar("9.9.9.9"), Scalar("555")>>),
                             Scalar("x")>>)
      [] j = "J4" -> List(<<Scalar("local"), None>>)

\* client.interface
ClientInterface(c) ==
    CASE c = "CA" -> List(<<Scalar("local"), None, Scalar("alice")>>)
      [] c = "CB" -> Tuple(<<Scalar("local"), None, Scalar("alice"), Scalar("x")>>)

----------------------------------------------------------------------------
(* Messages given to recv: a string or a Frame; str() of either is the     *)
(* wire string, and Frame() parses the wire string.                        *)

RawMsgs == {"junk", "r_alice", "r_alice4", "r_udp1", "r_empty", "s_alice", "x_udp1"}

NoFrame == [ok |-> FALSE, type |-> "", addr |-> None]
MkFrame(t, a) == [ok |-> TRUE, type |-> t, addr |-> a]

\* Frame(msg): fails, or yields a frame with .type and .addr
Frame(raw) ==
    CASE raw = "r_alice" -> MkFrame("r", List(<<Scalar("local"), None, Scalar("alice")>>))
      [] raw = "r_alice4" -> MkFrame("r", List(<<Scalar("local"), None, Scalar("alice"),
                                                 Scalar("y")>>))
      [] raw = "r_udp1" -> MkFrame("r", List(<<Scalar("udp"), Scalar("1.1.1.1")>>))
      [] raw = "r_empty" -> MkFrame("r", List(<<>>))
      [] raw = "s_alice" -> MkFrame("s", List(<<Scalar("local"), None, Scalar("alice")>>))
      [] raw = "x_udp1" -> MkFrame("x", List(<<Scalar("udp"), Scalar("1.1.1.1")>>))
      [] OTHER -> NoFrame

\* recv's argument: a wire string, or an already built Frame object.
FrameObjects == {"r_alice4"}
Msgs == [form : {"str"}, raw : RawMsgs \ FrameObjects]
            \cup [form : {"frame"}, raw : FrameObjects]

\* str(msg)
str(msg) == msg.raw

----------------------------------------------------------------------------
(* Dictionaries and their iteration order. *)

EmptyDict == [k \in {} |-> NoObj]

DictSet(d, key, val) == [k \in DOMAIN d \cup {key} |-> IF k = key THEN val ELSE d[k]]

Values(d) == {d[k] : k \in DOMAIN d}

\* "for i in d": every key once, in an order the language leaves open.
Orders(S) == {o \in [1..Cardinality(S) -> S] : \A x \in S : \E i \in DOMAIN o : o[i] = x}

\* Argument lists of at most n distinct objects.
ArgLists(S, n) ==
    {a \in UNION {[1..m -> S] : m \in 0..n} : \A i, j \in DOMAIN a : a[i] = a[j] => i = j}

----------------------------------------------------------------------------
(* Registry. *)

JackKey(j) == rtuple(Slice(JackInterface(j), 2))
ClientKey(c) == rtuple(Slice(ClientInterface(c), 3))

\* Router.client: the client registered at addr, or None.
client(addr) ==
    LET a == rtuple(Slice(addr, 3))
    IN  IF a \in DOMAIN _clients THEN _clients[a] ELSE NoObj

\* jack matching the whole (type, location) key instead of the type alone.
RECURSIVE jack_exact(_, _)
jack_exact(order, addr) ==
    IF order = <<>> THEN [exc |-> FALSE, val |-> NoObj]
    ELSE IF Len(addr.v) = 0 THEN [exc |-> TRUE, val |-> NoObj]
    ELSE IF Head(order) = rtuple(Slice(addr, 2))
         THEN [exc |-> FALSE, val |-> _jacks[Head(order)]]
    ELSE jack_exact(Tail(order), addr)

\* Router.jack: the first jack, in iteration order, whose transport type is
\* addr[0]; addr[0] is evaluated once per key visited, and raises IndexError
\* on an empty addr.
RECURSIVE jack(_, _)
jack(order, addr) ==
    IF order = <<>> THEN [exc |-> FALSE, val |-> NoObj]
    ELSE IF Len(addr.v) = 0 THEN [exc |-> TRUE, val |-> NoObj]
    ELSE IF Head(order).v[1] = addr.v[1] THEN [exc |-> FALSE, val |-> _jacks[Head(order)]]
    ELSE jack(Tail(order), addr)

\* Router._loadjack: the registry after "self._jacks[key] = jack".
_loadjack(reg, j) == DictSet(reg, JackKey(j), j)

\* _loadclient that keeps the client already registered under the key.
_loadclient_keepfirst(reg, c) ==
    IF ClientKey(c) \in DOMAIN reg THEN reg ELSE DictSet(reg, ClientKey(c), c)

\* Router._loadclient: the registry after "self._clients[key] = client".
_loadclient(reg, c) == DictSet(reg, ClientKey(c), c)

\* Router._loadjacks on an argument list, while runstate is "stopped".
RECURSIVE _loadjacks(_, _)
_loadjacks(reg, js) ==
    IF js = <<>> THEN reg ELSE _loadjacks(_loadjack(reg, Head(js)), Tail(js))

\* Router._loadclients on an argument list.
RECURSIVE _loadclients(_, _)
_loadclients(reg, cs) ==
    IF cs = <<>> THEN reg ELSE _loadclients(_loadclient(reg, Head(cs)), Tail(cs))

----------------------------------------------------------------------------
(* Calls made on jacks and clients. *)

Call(obj, m, arg, exc) == [obj |-> obj, m |-> m, arg |-> arg, exc |-> exc]

\* A call on the router; lists holds the constructor's two argument lists.
Op(name, arg, form) ==
    [name |-> name, arg |-> arg, form |-> form, lists |-> <<<<>>, <<>>>>]

\* Router.thread_all / Router.stop_all: one call per key, in iteration order.
thread_all(reg, order) ==
    [i \in 1..Len(order) |-> Call(reg[order[i]], "run_threaded", "", FALSE)]

stop_all(reg, order) ==
    [i \in 1..Len(order) |-> Call(reg[order[i]], "close", "", FALSE)]

\* The effect of the calls cs on the jacks' receive activity.
RECURSIVE Apply(_, _)
Apply(run, cs) ==
    IF cs = <<>> THEN run
    ELSE Apply(IF Head(cs).m = "run_threaded" THEN [run EXCEPT ![Head(cs).obj] = TRUE]
               ELSE IF Head(cs).m = "close" THEN [run EXCEPT ![Head(cs).obj] = FALSE]
               ELSE run,
               Tail(cs))

----------------------------------------------------------------------------
(* Threads calling the router, and calls of the module-level functions. *)

Threads == {"t1", "t2", "t3"}

\* A dictionary iterator: the size of the dictionary when the iteration
\* began and the keys still to come.
NoIter == [used |-> 0, rest |-> <<>>]

\* A thread that is in no call.
IdleThread ==
    [name |-> "idle", arg |-> "", pc |-> "done", it |-> NoIter, val |-> "",
     result |-> ""]

\* No function call has been made.
NoCall == [done |-> FALSE, exc |-> "", val |-> <<>>]

\* No thread is in a call and no function has been called.
Quiet ==
    /\ th = [t \in Threads |-> IdleThread]
    /\ input = <<>>
    /\ output = NoCall

----------------------------------------------------------------------------
(* Router.recv *)

\* log_add putting the entry in front: "self.log.insert(0, str(msg))".
log_add_front(msg) == IF logging THEN <<str(msg)>> \o log ELSE log

\* log_add rebinding the log: "self.log = [str(msg)]".
log_add_rebind(msg) == IF logging THEN <<str(msg)>> ELSE log

\* Router.log_add: the log after log_add(msg).
log_add(msg) == IF logging THEN Append(log, str(msg)) ELSE log

\* crashnicely.Guard: whether an exception raised inside "with Guard():"
\* leaves the block; Guard reports it and suppresses it.
Guard(exc) == FALSE

\* route called without the Guard around it.
Deliver_noguard(recvr, raw, fails) ==
    [calls |-> <<Call(recvr, "route", raw, fails)>>,
     result |-> IF fails THEN "raised" ELSE "returned"]

\* route called again when it failed.
Deliver_retry(recvr, raw, fails) ==
    [calls |-> IF fails
               THEN <<Call(recvr, "route", raw, TRUE), Call(recvr, "route", raw, FALSE)>>
               ELSE <<Call(recvr, "route", raw, FALSE)>>,
     result |-> "returned"]

\* "with Guard(): recvr.route(msg)": the call made, and how recv ends.
Deliver(recvr, raw, fails) ==
    [calls |-> <<Call(recvr, "route", raw, fails)>>,
     result |-> IF Guard(fails) THEN "raised" ELSE "returned"]

\* Resolve with the two lookups swapped: "self.jack(addr) or self.client(addr)".
Resolve_jackfirst(order, addr) ==
    LET jk == jack(order, addr)
    IN  IF jk.exc \/ jk.val # NoObj THEN jk ELSE [exc |-> FALSE, val |-> client(addr)]

\* "self.client(msg.addr) or self.jack(msg.addr)": jack is evaluated only
\* when client returned None.
Resolve(order, addr) ==
    LET c == client(addr)
    IN  IF c # NoObj THEN [exc |-> FALSE, val |-> c] ELSE jack(order, addr)

\* recv without its try/except around Frame(msg).
ParseFailure_raise == [calls |-> <<>>, result |-> "raised"]

\* "except Exception: print ...; return": no call is made and recv returns.
ParseFailure == [calls |-> <<>>, result |-> "returned"]

\* recv dispatching the frames of type "s" as well.
IsRouted_sent(type) == type \in {"r", "s"}

\* 'if msg.type == "r"'
IsRouted(type) == type = "r"

\* The body of recv after log_add: the calls it makes and how it ends, for
\* the iteration order of _jacks and for whether the recipient's route fails.
Dispatch(msg, order, fails) ==
    LET f == Frame(str(msg))
    IN  IF ~f.ok THEN ParseFailure
        ELSE IF IsRouted(f.type)
        THEN LET recvr == Resolve(order, f.addr)
             IN  IF recvr.exc THEN [calls |-> <<>>, result |-> "raised"]
                 ELSE IF recvr.val # NoObj THEN Deliver(recvr.val, str(msg), fails)
                 ELSE [calls |-> <<>>, result |-> "returned"]
        ELSE [calls |-> <<>>, result |-> "returned"]

\* recv, explored while the log holds fewer than cap entries.
RecvCap(msg, cap) ==
    /\ logging => Len(log) < cap
    /\ \E d \in {Dispatch(msg, order, fails) :
                      order \in Orders(DOMAIN _jacks), fails \in BOOLEAN} :
          /\ log' = log_add(msg)
          /\ calls' = d.calls
          /\ result' = d.result
    /\ op' = Op("recv", msg.raw, msg.form)
    /\ UNCHANGED <<runstate, _jacks, _clients, logging, running>>
    /\ UNCHANGED others

Recv(msg) == RecvCap(msg, MaxLog)

----------------------------------------------------------------------------
(* Registration and lifecycle. *)

\* _loadjack without its last two lines.
late_start_never(j) == <<>>

\* Router._loadjack, its last two lines: a jack loaded while the router is
\* threaded is started at once.
late_start(j) ==
    IF runstate = "threaded" THEN <<Call(j, "run_threaded", "", FALSE)>> ELSE <<>>

\* run without the test of runstate: every run("threaded") calls thread_all.
run_nocheck(level, order) ==
    IF level = "threaded" THEN thread_all(_jacks, order)
    ELSE IF level = "stopped" THEN stop_all(_jacks, order)
    ELSE <<>>

\* Router.run: the calls made on the jacks, for the iteration order of _jacks.
run(level, order) ==
    IF level = "threaded"
    THEN IF runstate = "stopped" THEN thread_all(_jacks, order) ELSE <<>>
    ELSE IF level = "stopped" THEN stop_all(_jacks, order)
    ELSE <<>>

LoadJack(j) ==
    /\ _jacks' = _loadjack(_jacks, j)
    /\ calls' = late_start(j)
    /\ running' = Apply(running, calls')
    /\ op' = Op("_loadjack", j, "")
    /\ result' = "returned"
    /\ UNCHANGED <<runstate, _clients, logging, log>>
    /\ UNCHANGED others

LoadClient(c) ==
    /\ _clients' = _loadclient(_clients, c)
    /\ calls' = <<>>
    /\ op' = Op("_loadclient", c, "")
    /\ result' = "returned"
    /\ UNCHANGED <<runstate, _jacks, logging, log, running>>
    /\ UNCHANGED others

Run(level) ==
    /\ \E cs \in {run(level, order) : order \in Orders(DOMAIN _jacks)} : calls' = cs
    /\ running' = Apply(running, calls')
    /\ runstate' = level
    /\ op' = Op("run", level, "")
    /\ result' = "returned"
    /\ UNCHANGED <<_jacks, _clients, logging, log>>
    /\ UNCHANGED others

\* Router.logging is a plain attribute its owner may set.
SetLogging(b) ==
    /\ b # logging
    /\ logging' = b
    /\ calls' = <<>>
    /\ op' = Op("logging", IF b THEN "True" ELSE "False", "")
    /\ result' = "returned"
    /\ UNCHANGED <<runstate, _jacks, _clients, log, running>>
    /\ UNCHANGED others

----------------------------------------------------------------------------
(* Router.__init__(jacks, clients) *)

\* The router's fields when __init__ returns.
Constructed ==
    \E js \in ArgLists(Jacks, MaxInit), cs \in ArgLists(Clients, MaxInit) :
        /\ _jacks = _loadjacks(EmptyDict, js)
        /\ _clients = _loadclients(EmptyDict, cs)
        /\ logging = TRUE
        /\ log = <<>>
        /\ \E order \in Orders(DOMAIN _jacks) : calls = thread_all(_jacks, order)
        /\ running = Apply([j \in Jacks |-> FALSE], calls)
        /\ runstate = "threaded"
        /\ op = [Op("__init__", "", "") EXCEPT !.lists = <<js, cs>>]
        /\ result = "returned"

Init == Constructed /\ Quiet

Levels == {"threaded", "stopped"}

Next ==
    \/ \E msg \in Msgs : Recv(msg)
    \/ \E j \in Jacks : LoadJack(j)
    \/ \E c \in Clients : LoadClient(c)
    \/ \E level \in Levels : Run(level)
    \/ \E b \in BOOLEAN : SetLogging(b)

Spec == Init /\ [][Next]_vars

----------------------------------------------------------------------------
(* The same calls, run being given any level. *)

AnyLevels == Levels \cup {"paused"}

NextAnyLevel ==
    \/ \E msg \in Msgs : Recv(msg)
    \/ \E j \in Jacks : LoadJack(j)
    \/ \E c \in Clients : LoadClient(c)
    \/ \E level \in AnyLevels : Run(level)
    \/ \E b \in BOOLEAN : SetLogging(b)

SpecAnyLevel == Init /\ [][NextAnyLevel]_vars

----------------------------------------------------------------------------
(* Calls of recv one at a time on Router(jacks=[J1, J4], clients=[CA]),     *)
(* with the logging switch.                                                *)

InitLog == Init /\ op.lists = <<<<"J1", "J4">>, <<"CA">>>>

NextLog ==
    \/ \E msg \in Msgs : RecvCap(msg, MaxLogSeq)
    \/ \E b \in BOOLEAN : SetLogging(b)

SpecLog == InitLog /\ [][NextLog]_vars

----------------------------------------------------------------------------
(* identity/core.py: deserialize(ident_dict) *)

\* Router(): nothing registered, no call made on it.
RouterNew ==
    /\ _jacks = EmptyDict
    /\ _clients = EmptyDict
    /\ logging = TRUE
    /\ log = <<>>
    /\ calls = <<>>
    /\ running = [j \in Jacks |-> FALSE]
    /\ runstate = "threaded"
    /\ op = Op("__init__", "", "")
    /\ result = "returned"
    /\ th = [t \in Threads |-> IdleThread]

router == <<runstate, _jacks, _clients, logging, log, running, op, calls, result, th>>

\* The values a key of ident_dict may hold; a key holding None is present.
FieldValues(key) ==
    CASE key = "name" -> {"Calvin", "joe"}
      [] key = "location" -> {"None", "local-calvin"}
      [] key = "encryptor" -> {"rotate-4", "rotate-8"}
      [] key = "comment" -> {"Lives dangerously", "None"}

FieldNames == {"name", "location", "encryptor", "comment"}

\* The dictionaries given to deserialize: every set of keys present.
IdentDicts ==
    UNION {{d \in [present -> UNION {FieldValues(key) : key \in FieldNames}] :
               \A key \in present : d[key] \in FieldValues(key)} :
           present \in SUBSET FieldNames}

\* The required keys in another order.
Required_encryptor_first == <<"name", "encryptor", "location">>

\* "for req in ('name', 'location', 'encryptor')"
Required == <<"name", "location", "encryptor">>

\* The first req of reqs with "not req in ident_dict", "" when there is none.
RECURSIVE FirstMissing(_, _)
FirstMissing(reqs, ident_dict) ==
    IF reqs = <<>> THEN ""
    ELSE IF Head(reqs) \notin DOMAIN ident_dict THEN Head(reqs)
    ELSE FirstMissing(Tail(reqs), ident_dict)

\* Identity.__init__: _contents, the three fields updated with kwargs.
Identity(name, encryptor, location, kwargs) ==
    [key \in {"name", "encryptor", "location"} \cup DOMAIN kwargs |->
        IF key \in DOMAIN kwargs THEN kwargs[key]
        ELSE IF key = "name" THEN name
        ELSE IF key = "encryptor" THEN encryptor
        ELSE location]

\* deserialize: raises ValueError("Missing ident property: %r" % req), exc
\* holding req, or returns the Identity built from the dictionary.
deserialize(ident_dict) ==
    LET req == FirstMissing(Required, ident_dict)
        cleaned == [key \in DOMAIN ident_dict \ {"name", "location", "encryptor"} |->
                       ident_dict[key]]
    IN  IF req # "" THEN [done |-> TRUE, exc |-> req, val |-> <<>>]
        ELSE [done |-> TRUE, exc |-> "",
              val |-> Identity(ident_dict["name"], ident_dict["encryptor"],
                               ident_dict["location"], cleaned)]

InitDeserialize ==
    /\ RouterNew
    /\ input \in IdentDicts
    /\ output = NoCall

Deserialize ==
    /\ ~output.done
    /\ output' = deserialize(input)
    /\ UNCHANGED <<router, input>>

SpecDeserialize == InitDeserialize /\ [][Deserialize]_vars

----------------------------------------------------------------------------
(* router.py: rtuple(obj) *)

\* The lists and tuples of at most two items taken from S.
Containers(S) ==
    {List(items) : items \in UNION {[1..n -> S] : n \in 0..2}}
        \cup {Tuple(items) : items \in UNION {[1..n -> S] : n \in 0..2}}

\* A scalar, and the lists and tuples nested at most depth deep over it.
RECURSIVE Nested(_)
Nested(depth) ==
    IF depth = 0 THEN {Scalar("a")}
    ELSE Nested(depth - 1) \cup Containers(Nested(depth - 1))

InitRtuple ==
    /\ RouterNew
    /\ input \in Nested(MaxDepth)
    /\ output = NoCall

ApplyRtuple ==
    /\ ~output.done
    /\ output' = [done |-> TRUE, exc |-> "", val |-> rtuple(input)]
    /\ UNCHANGED <<router, input>>

SpecRtuple == InitRtuple /\ [][ApplyRtuple]_vars

----------------------------------------------------------------------------
(* Router methods called from several threads at once. A step is what a    *)
(* thread does between two points where the interpreter may switch to      *)
(* another thread; a call on a dictionary or on a list is one step.        *)

\* The router's fields and what was seen of its calls.
shared == <<runstate, _jacks, _clients, logging, log, running, op, calls, result>>

\* A thread entering a router method.
Enter(name, arg, pc) ==
    [name |-> name, arg |-> arg, pc |-> pc, it |-> NoIter, val |-> "", result |-> ""]

Goto(t, pc) == [th EXCEPT ![t].pc = pc]

\* The method returns, or an exception leaves it.
Finish(t, res) == [th EXCEPT ![t].pc = "done", ![t].result = res]

At(t, name, pc) == th[t].name = name /\ th[t].pc = pc

\* "for ... in self._jacks": the iterator notes the size of the dictionary.
iter(order) == [used |-> Len(order), rest |-> order]

\* The iterator's next() raises RuntimeError when the dictionary's size is
\* no longer the one noted.
SizeChanged(it) == Cardinality(DOMAIN _jacks) # it.used

\* recv: "self.log_add(msg)". No method writes self.logging, and
\* list.append is one call on the list.
T_log_add(t) ==
    /\ At(t, "recv", "log_add")
    /\ log' = log_add(th[t].arg)
    /\ th' = Goto(t, "Frame")
    /\ UNCHANGED <<runstate, _jacks, _clients, logging, running, op, calls, result,
                   input, output>>

\* recv: "try: msg = frame.Frame(msg) except ...: return", then the test of
\* msg.type.
T_Frame(t) ==
    /\ At(t, "recv", "Frame")
    /\ LET f == Frame(str(th[t].arg))
       IN  th' = IF ~f.ok THEN Finish(t, ParseFailure.result)
                 ELSE IF IsRouted(f.type) THEN Goto(t, "client")
                 ELSE Finish(t, "returned")
    /\ UNCHANGED <<shared, input, output>>

\* recv: "self.client(msg.addr)". No key ever leaves _clients, so the test
\* "addr in self._clients" and the read that follows it act as one read.
T_client(t) ==
    /\ At(t, "recv", "client")
    /\ LET c == client(Frame(str(th[t].arg)).addr)
       IN  th' = IF c # NoObj THEN [Goto(t, "route") EXCEPT ![t].val = c]
                 ELSE Goto(t, "jack")
    /\ UNCHANGED <<shared, input, output>>

\* recv: "self.jack(msg.addr)", the for statement taking its iterator.
T_jack(t) ==
    /\ At(t, "recv", "jack")
    /\ \E order \in Orders(DOMAIN _jacks) :
          th' = [Goto(t, "jack_next") EXCEPT ![t].it = iter(order)]
    /\ UNCHANGED <<shared, input, output>>

\* Router.jack, one turn of its loop: the iterator's next(), the test of the
\* key and the return. With no key left jack returns None and recv returns.
T_jack_next(t) ==
    /\ At(t, "recv", "jack_next")
    /\ LET it == th[t].it
           r == jack(<<Head(it.rest)>>, Frame(str(th[t].arg)).addr)
       IN  th' = IF SizeChanged(it) THEN Finish(t, "raised")
                 ELSE IF it.rest = <<>> THEN [Finish(t, "returned") EXCEPT ![t].val = NoObj]
                 ELSE IF r.exc THEN Finish(t, "raised")
                 ELSE IF r.val # NoObj THEN [Goto(t, "route") EXCEPT ![t].val = r.val]
                 ELSE [th EXCEPT ![t].it.rest = Tail(it.rest)]
    /\ UNCHANGED <<shared, input, output>>

\* recv: "with Guard(): recvr.route(msg)".
T_route(t) ==
    /\ At(t, "recv", "route")
    /\ \E fails \in BOOLEAN :
          LET d == Deliver(th[t].val, str(th[t].arg), fails)
          IN  /\ calls' = calls \o d.calls
              /\ th' = Finish(t, d.result)
    /\ UNCHANGED <<runstate, _jacks, _clients, logging, log, running, op, result,
                   input, output>>

\* _loadjack: "self._jacks[key] = jack".
T_loadjack(t) ==
    /\ At(t, "_loadjack", "store")
    /\ _jacks' = _loadjack(_jacks, th[t].arg)
    /\ th' = Goto(t, "late_start")
    /\ UNCHANGED <<runstate, _clients, logging, log, running, op, calls, result,
                   input, output>>

\* _loadjack: 'if self.runstate == "threaded": jack.run_threaded()'.
T_late_start(t) ==
    /\ At(t, "_loadjack", "late_start")
    /\ calls' = calls \o late_start(th[t].arg)
    /\ running' = Apply(running, late_start(th[t].arg))
    /\ th' = Finish(t, "returned")
    /\ UNCHANGED <<runstate, _jacks, _clients, logging, log, op, result,
                   input, output>>

\* _loadclient: "self._clients[key] = client".
T_loadclient(t) ==
    /\ At(t, "_loadclient", "store")
    /\ _clients' = _loadclient(_clients, th[t].arg)
    /\ th' = Finish(t, "returned")
    /\ UNCHANGED <<runstate, _jacks, logging, log, running, op, calls, result,
                   input, output>>

\* run: the tests of level and of self.runstate; val holds the method that
\* thread_all or stop_all will call on every jack.
T_run(t) ==
    /\ At(t, "run", "test")
    /\ th' = IF th[t].arg = "threaded"
             THEN IF runstate = "stopped"
                  THEN [Goto(t, "for") EXCEPT ![t].val = "run_threaded"]
                  ELSE Goto(t, "set")
             ELSE IF th[t].arg = "stopped"
             THEN [Goto(t, "for") EXCEPT ![t].val = "close"]
             ELSE Goto(t, "set")
    /\ UNCHANGED <<shared, input, output>>

\* thread_all / stop_all: the for statement taking its iterator.
T_for(t) ==
    /\ At(t, "run", "for")
    /\ \E order \in Orders(DOMAIN _jacks) :
          th' = [Goto(t, "for_next") EXCEPT ![t].it = iter(order)]
    /\ UNCHANGED <<shared, input, output>>

\* thread_all / stop_all, one turn of the loop: the iterator's next() and
\* "self._jacks[i].run_threaded()" or "self._jacks[i].close()".
T_for_next(t) ==
    /\ At(t, "run", "for_next")
    /\ LET it == th[t].it
           cs == IF SizeChanged(it) \/ it.rest = <<>> THEN <<>>
                 ELSE <<Call(_jacks[Head(it.rest)], th[t].val, "", FALSE)>>
       IN  /\ th' = IF SizeChanged(it) THEN Finish(t, "raised")
                    ELSE IF it.rest = <<>> THEN Goto(t, "set")
                    ELSE [th EXCEPT ![t].it.rest = Tail(it.rest)]
           /\ calls' = calls \o cs
           /\ running' = Apply(running, cs)
    /\ UNCHANGED <<runstate, _jacks, _clients, logging, log, op, result,
                   input, output>>

\* run: "self.runstate = level".
T_set(t) ==
    /\ At(t, "run", "set")
    /\ runstate' = th[t].arg
    /\ th' = Finish(t, "returned")
    /\ UNCHANGED <<_jacks, _clients, logging, log, running, op, calls, result,
                   input, output>>

RecvSteps(t) ==
    \/ T_log_add(t)
    \/ T_Frame(t)
    \/ T_client(t)
    \/ T_jack(t)
    \/ T_jack_next(t)
    \/ T_route(t)

----------------------------------------------------------------------------
(* recv called by every thread at once on Router(jacks=[J1, J4],           *)
(* clients=[CA]).                                                          *)

InitConcurrentRecv ==
    /\ Constructed
    /\ op.lists = <<<<"J1", "J4">>, <<"CA">>>>
    /\ \E args \in [Threads -> Msgs] :
          th = [t \in Threads |-> Enter("recv", args[t], "log_add")]
    /\ input = <<>>
    /\ output = NoCall

NextConcurrentRecv == \E t \in Threads : RecvSteps(t)

SpecConcurrentRecv == InitConcurrentRecv /\ [][NextConcurrentRecv]_vars

----------------------------------------------------------------------------
(* recv called by one thread while another thread registers a jack or a    *)
(* client.                                                                 *)

Registrations ==
    {Enter("_loadjack", j, "store") : j \in Jacks}
        \cup {Enter("_loadclient", c, "store") : c \in Clients}

InitRegisterDuringRecv ==
    /\ Constructed
    /\ \E msg \in Msgs, reg \in Registrations :
          th = [t \in Threads |->
                   IF t = "t1" THEN Enter("recv", msg, "log_add")
                   ELSE IF t = "t2" THEN reg
                   ELSE IdleThread]
    /\ input = <<>>
    /\ output = NoCall

NextRegisterDuringRecv ==
    \E t \in Threads :
        \/ RecvSteps(t)
        \/ T_loadjack(t)
        \/ T_late_start(t)
        \/ T_loadclient(t)

SpecRegisterDuringRecv == InitRegisterDuringRecv /\ [][NextRegisterDuringRecv]_vars

----------------------------------------------------------------------------
(* run("threaded") called by one thread on a stopped router while another  *)
(* thread registers a jack.                                                *)

\* The router after Router(jacks=js) and run("stopped").
Stopped ==
    \E js \in ArgLists(Jacks, MaxInit) :
        /\ _jacks = _loadjacks(EmptyDict, js)
        /\ _clients = EmptyDict
        /\ logging = TRUE
        /\ log = <<>>
        /\ \E order \in Orders(DOMAIN _jacks) : calls = stop_all(_jacks, order)
        /\ running = [j \in Jacks |-> FALSE]
        /\ runstate = "stopped"
        /\ op = Op("run", "stopped", "")
        /\ result = "returned"

InitRegisterDuringRun ==
    /\ Stopped
    /\ \E j \in Jacks :
          th = [t \in Threads |->
                   IF t = "t1" THEN Enter("run", "threaded", "test")
                   ELSE IF t = "t2" THEN Enter("_loadjack", j, "store")
                   ELSE IdleThread]
    /\ input = <<>>
    /\ output = NoCall

NextRegisterDuringRun ==
    \E t \in Threads :
        \/ T_run(t)
        \/ T_for(t)
        \/ T_for_next(t)
        \/ T_set(t)
        \/ T_loadjack(t)
        \/ T_late_start(t)

SpecRegisterDuringRun == InitRegisterDuringRun /\ [][NextRegisterDuringRun]_vars

----------------------------------------------------------------------------
(* What the claims speak of. *)

\* The frame of the last recv call (NoFrame when it did not parse).
LastFrame == Frame(op.arg)

RoutedRecv == op.name = "recv" /\ LastFrame.ok /\ LastFrame.type = "r"

\* The canonical 3-component client key an address names.
ExactKey(addr) == Tuple([i \in 1..3 |-> rtuple(addr.v[i])])

\* The registered jacks whose key has transport type t.
JacksOfType(t) == {_jacks[k] : k \in {x \in DOMAIN _jacks : x.v[1] = t}}

\* Exactly one delivery, of the received message, to recipient r.
DeliveredTo(r) ==
    /\ Len(calls) = 1
    /\ calls[1].obj = r
    /\ calls[1].m = "route"
    /\ calls[1].arg = op.arg

\* C1: a routed frame addressed to (t, l, c) for which a client is registered
\* under exactly (t, l, c) is delivered to that client and to no jack,
\* whatever jacks are registered; a jack receives a routed frame only when
\* no client is registered under the frame's client key.
C1_ClientPriority ==
    RoutedRecv =>
        /\ (Len(LastFrame.addr.v) = 3 /\ ExactKey(LastFrame.addr) \in DOMAIN _clients)
              => /\ DeliveredTo(_clients[ExactKey(LastFrame.addr)])
                 /\ \A i \in DOMAIN calls : calls[i].obj \notin Jacks
        /\ (\E i \in DOMAIN calls : calls[i].obj \in Jacks)
              => /\ Len(LastFrame.addr.v) >= 3 => ExactKey(LastFrame.addr) \notin DOMAIN _clients
                 /\ \A c \in Values(_clients) :
                       ClientKey(c) # rtuple(Slice(LastFrame.addr, 3))

\* A routed frame for ("local", None, "alice") went to the client registered
\* there, while a jack is registered under ("local", None).
C1_Witness ==
    /\ RoutedRecv
    /\ op.arg = "r_alice"
    /\ Tuple(<<Scalar("local"), None>>) \in DOMAIN _jacks
    /\ calls # <<>>
    /\ calls[1].obj \in Clients

\* Addresses looked up in C2: every transport type, with locations that are
\* and are not those of a registered jack, with and without a client id.
QueryAddrs ==
    {List(<<Scalar(t)>> \o rest) :
        t \in {"udp", "local", "tcp"},
        rest \in {<<>>, <<Scalar("1.1.1.1")>>, <<Scalar("8.8.8.8"), Scalar("bob")>>,
                  <<None, Scalar("alice")>>}}

\* C2: for every registry, every iteration order and every address of
\* transport type t, jack returns a registered jack whose key has type t
\* when there is one, whatever its location, and None only when there is
\* none; a routed frame that no client takes goes to such a jack.
C2_AdapterByType ==
    /\ \A addr \in QueryAddrs, order \in Orders(DOMAIN _jacks) :
          LET r == jack(order, addr)
              cands == JacksOfType(addr.v[1])
          IN  /\ ~r.exc
              /\ cands # {} => r.val \in cands
              /\ cands = {} => r.val = NoObj
    /\ (RoutedRecv /\ op.arg = "r_udp1" /\ JacksOfType(Scalar("udp")) # {})
          => \E j \in JacksOfType(Scalar("udp")) : DeliveredTo(j)

\* A routed frame for ("udp", "1.1.1.1") went to one of two udp jacks, neither
\* of them registered at 1.1.1.1.
C2_Witness ==
    /\ RoutedRecv
    /\ op.arg = "r_udp1"
    /\ JacksOfType(Scalar("udp")) = {"J1", "J2"}
    /\ calls # <<>>
    /\ calls[1].obj \in {"J1", "J2"}

\* The canonical client keys looked up in C3: those of the clients, and one
\* under which nothing is ever registered.
ClientKeys ==
    {Tuple(<<Scalar("local"), None, Scalar("alice")>>),
     Tuple(<<Scalar("udp"), Tuple(<<Scalar("9.9.9.9"), Scalar("555")>>), Scalar("bob")>>)}

\* The client registered last under K by the calls _loadclient(cs[1]), ...
RECURSIVE LastUnder(_, _)
LastUnder(cs, K) ==
    IF cs = <<>> THEN NoObj
    ELSE IF ClientKey(cs[Len(cs)]) = K THEN cs[Len(cs)]
    ELSE LastUnder(SubSeq(cs, 1, Len(cs) - 1), K)

\* C3: client(K) is the client registered last under K, and None when no
\* client was registered under K: so it is after the constructor registered
\* its list of clients, every _loadclient(c) makes c the answer under c's key
\* and leaves the other keys' answers alone, and no other call changes any
\* answer.
C3_LastRegisteredClient ==
    /\ \A K \in ClientKeys : client(K) = LastUnder(op.lists[2], K)
    /\ [][\A K \in ClientKeys :
            client(K)' = IF op'.name = "_loadclient" /\ ClientKey(op'.arg) = K
                         THEN op'.arg
                         ELSE client(K)]_vars

\* The constructor registered CA and then CB under the same key, and the
\* lookup of that key answers CB.
C3_Witness ==
    /\ op.name = "__init__"
    /\ op.lists[2] = <<"CA", "CB">>
    /\ client(Tuple(<<Scalar("local"), None, Scalar("alice")>>)) = "CB"

\* How many times the calls cs call method m on object j.
Count(cs, j, m) == Cardinality({i \in DOMAIN cs : cs[i].obj = j /\ cs[i].m = m})

\* C4: run("threaded") in state stopped calls run_threaded once on every
\* registered jack, and on nothing else, and leaves the state threaded;
\* run("threaded") in state threaded calls nothing; run("stopped") calls
\* close on every registered jack and leaves the state stopped.
C4_Lifecycle ==
    [][op'.name = "run" =>
        /\ (op'.arg = "threaded" /\ runstate = "stopped") =>
              /\ \A j \in Values(_jacks) : Count(calls', j, "run_threaded") = 1
              /\ Len(calls') = Cardinality(Values(_jacks))
              /\ runstate' = "threaded"
        /\ (op'.arg = "threaded" /\ runstate = "threaded") =>
              /\ calls' = <<>>
              /\ runstate' = "threaded"
        /\ op'.arg = "stopped" =>
              /\ \A j \in Values(_jacks) : Count(calls', j, "close") >= 1
              /\ runstate' = "stopped"]_vars

\* run("threaded") has just started three registered jacks.
C4_Witness ==
    /\ op.name = "run"
    /\ op.arg = "threaded"
    /\ runstate = "threaded"
    /\ Cardinality(Values(_jacks)) = 3
    /\ Len(calls) = 3

\* C5: while the router is threaded, every jack in the registry has been
\* started since it was last stopped; _loadjack starts the jack it registers
\* when the router is threaded and makes no call when it is stopped.
C5_NoIdleJack ==
    /\ runstate = "threaded" => \A j \in Values(_jacks) : running[j]
    /\ op.name = "_loadjack" =>
          /\ op.arg \in Values(_jacks)
          /\ runstate = "threaded" => calls = <<Call(op.arg, "run_threaded", "", FALSE)>>
          /\ runstate = "stopped" => calls = <<>>

\* A jack joined a threaded router that already had another jack, and runs.
C5_Witness ==
    /\ op.name = "_loadjack"
    /\ runstate = "threaded"
    /\ Cardinality(Values(_jacks)) >= 2
    /\ running[op.arg]
    /\ calls # <<>>

\* C6: recv of an input that does not parse returns, calls no client and no
\* jack, and, when logging is on, leaves the log one entry longer, the new
\* last entry being the rendering of that input.
C6_UnparsableInput ==
    [][(op'.name = "recv" /\ ~Frame(op'.arg).ok) =>
          /\ result' = "returned"
          /\ calls' = <<>>
          /\ logging => log' = Append(log, op'.arg)]_vars

\* An unparsable input was received with logging on: logged, not delivered.
C6_Witness ==
    /\ op.name = "recv"
    /\ op.arg = "junk"
    /\ ~LastFrame.ok
    /\ logging
    /\ log # <<>>
    /\ log[Len(log)] = "junk"
    /\ calls = <<>>
    /\ result = "returned"

\* C7: route is called only by a recv of a frame of type "r"; recv of a frame
\* of type "s", or of any other type than "r", calls nothing, whatever is
\* registered, and logs the frame when logging is on.
C7_OnlyRoutedDelivered ==
    [][/\ (\E i \in DOMAIN calls' : calls'[i].m = "route") =>
              /\ op'.name = "recv"
              /\ Frame(op'.arg).ok
              /\ Frame(op'.arg).type = "r"
       /\ (op'.name = "recv" /\ Frame(op'.arg).ok /\ Frame(op'.arg).type # "r") =>
              /\ calls' = <<>>
              /\ result' = "returned"
              /\ logging => log' = Append(log, op'.arg)]_vars

\* A frame of type "s" for ("local", None, "alice") was received while a
\* client is registered there and a jack under ("local", None): logged only.
C7_Witness ==
    /\ op.name = "recv"
    /\ op.arg = "s_alice"
    /\ LastFrame.type = "s"
    /\ ExactKey(LastFrame.addr) \in DOMAIN _clients
    /\ JacksOfType(Scalar("local")) # {}
    /\ log # <<>>
    /\ log[Len(log)] = "s_alice"
    /\ calls = <<>>

\* The recipients recv may choose for a routed frame to addr: the client under
\* its client key, or else the jacks of its transport type.
Candidates(addr) ==
    IF rtuple(Slice(addr, 3)) \in DOMAIN _clients
    THEN {_clients[rtuple(Slice(addr, 3))]}
    ELSE IF Len(addr.v) = 0 THEN {}
    ELSE JacksOfType(addr.v[1])

\* The last call on the router was a recv whose recipient's route failed.
DeliveryFailed == op.name = "recv" /\ \E i \in DOMAIN calls : calls[i].exc

\* C8: a recv whose recipient's route fails returns, and changes neither
\* registry nor the run state; the recv that follows it, of a routed frame
\* with a registered recipient, delivers that frame once to such a recipient.
C8_DeliveryFailureIsolated ==
    [][/\ DeliveryFailed' =>
              /\ result' = "returned"
              /\ UNCHANGED <<_jacks, _clients, runstate, running>>
       /\ (DeliveryFailed /\ RoutedRecv' /\ Candidates(LastFrame.addr)' # {}) =>
              /\ result' = "returned"
              /\ \E r \in Candidates(LastFrame.addr)' : DeliveredTo(r)']_vars

\* The recipient's route failed and recv returned.
C8_Witness ==
    /\ DeliveryFailed
    /\ Len(calls) = 1
    /\ calls[1].m = "route"
    /\ result = "returned"

\* C9: recv of a routed frame whose address matches no registered client and
\* no registered jack calls nothing and returns, and no other call on the
\* router delivers a frame.
C9_UnmatchedDropped ==
    /\ (RoutedRecv /\ Candidates(LastFrame.addr) = {}) =>
          /\ calls = <<>>
          /\ result = "returned"
    /\ op.name # "recv" => \A i \in DOMAIN calls : calls[i].m # "route"

\* C10: every call on the router makes at most one call of route, and only
\* recv makes one; a routed frame addressed to the exact key of a registered
\* client is delivered exactly once, to that client.
C10_AtMostOnce ==
    /\ Cardinality({i \in DOMAIN calls : calls[i].m = "route"}) <= 1
    /\ (\E i \in DOMAIN calls : calls[i].m = "route") => op.name = "recv" /\ Len(calls) = 1
    /\ (RoutedRecv /\ Len(LastFrame.addr.v) = 3
          /\ ExactKey(LastFrame.addr) \in DOMAIN _clients) =>
              /\ Count(calls, _clients[ExactKey(LastFrame.addr)], "route") = 1
              /\ Len(calls) = 1

\* The frame for ("local", None, "alice") was delivered once to client CA,
\* registered there, and to nothing else.
C10_Witness ==
    /\ RoutedRecv
    /\ LastFrame.addr = List(<<Scalar("local"), None, Scalar("alice")>>)
    /\ ExactKey(LastFrame.addr) \in DOMAIN _clients
    /\ _clients[ExactKey(LastFrame.addr)] = "CA"
    /\ Count(calls, "CA", "route") = 1
    /\ Len(calls) = 1

\* C18: recv returns to its caller for every input, a parsed routed frame
\* with an empty address included, whatever is registered.
C18_RecvNeverRaises ==
    op.name = "recv" => result = "returned"

\* C19: after run("stopped"), no jack the router started is left running
\* since its last start, a jack whose registry entry was overwritten included.
C19_AllStartedStopped ==
    (op.name = "run" /\ op.arg = "stopped") => \A j \in Jacks : ~running[j]

\* C16: the log starts empty; every recv made while logging is on appends
\* the rendering of its input at the end of the log, also when the input does
\* not parse, is not delivered or makes recv raise; a recv made while logging
\* is off, and every other call, leaves the log as it was.
C16_LogInCallOrder ==
    /\ log = <<>>
    /\ [][log' = IF op'.name = "recv" /\ logging THEN Append(log, op'.arg) ELSE log]_vars

\* Two inputs were logged in call order, the second making recv raise, and a
\* third was received with logging off.
C16_Witness ==
    /\ log = <<"junk", "r_empty">>
    /\ op.name = "recv"
    /\ op.arg = "x_udp1"
    /\ ~logging

\* C15: whatever levels run is called with, runstate is "stopped" or
\* "threaded".
C15_RunstateDomain ==
    runstate \in {"stopped", "threaded"}

\* C13: deserialize of a dictionary lacking a required key raises the error
\* naming the first key missing in the order name, location, encryptor, and
\* builds no Identity; it returns an Identity, holding the dictionary's
\* entries, exactly when the three keys are present.
C13_FirstMissingField ==
    output.done =>
        LET present == DOMAIN input
        IN  /\ "name" \notin present => output.exc = "name"
            /\ ("name" \in present /\ "location" \notin present) => output.exc = "location"
            /\ ({"name", "location"} \subseteq present /\ "encryptor" \notin present)
                  => output.exc = "encryptor"
            /\ {"name", "location", "encryptor"} \subseteq present <=> output.exc = ""
            /\ output.exc # "" => output.val = <<>>
            /\ output.exc = "" => output.val = input

\* A dictionary with a name and a comment only: the error names location,
\* not encryptor.
C13_Witness ==
    /\ output.done
    /\ DOMAIN input = {"name", "comment"}
    /\ output.exc = "location"

\* obj with every list and tuple in it, at every depth, made a kind.
RECURSIVE AllOfKind(_, _)
AllOfKind(obj, kind) ==
    IF obj.k = "scalar" THEN obj
    ELSE [k |-> kind, s |-> "", v |-> [i \in 1..Len(obj.v) |-> AllOfKind(obj.v[i], kind)]]

\* C14: rtuple of the value rtuple returned is that value; the nested-list
\* form and the nested-tuple form of the argument's structure have the same
\* rtuple, which is the one returned; a scalar is returned as it is.
C14_RtupleIdempotent ==
    output.done =>
        /\ rtuple(output.val) = output.val
        /\ rtuple(AllOfKind(input, "list")) = rtuple(AllOfKind(input, "tuple"))
        /\ output.val = rtuple(AllOfKind(input, "list"))
        /\ input.k = "scalar" => output.val = input

\* rtuple was applied to a list holding a tuple and a list.
C14_Witness ==
    /\ output.done
    /\ input = List(<<Tuple(<<Scalar("a")>>), List(<<Scalar("a"), Scalar("a")>>)>>)
    /\ output.val = Tuple(<<Tuple(<<Scalar("a")>>), Tuple(<<Scalar("a"), Scalar("a")>>)>>)

\* Every thread called method name and its call has ended.
AllDone(name) == \A t \in Threads : th[t].name = name /\ th[t].pc = "done"

\* The threads whose call was given the message rendered as raw.
Callers(raw) == {t \in Threads : th[t].name = "recv" /\ str(th[t].arg) = raw}

\* C11: when recv calls made by all the threads at once, logging being set,
\* have all ended, the log holds one entry per call and nothing else: every
\* rendering appears as many times as there are calls that were given it.
C11_NoLogEntryLost ==
    (logging /\ AllDone("recv")) =>
        /\ Len(log) = Cardinality(Threads)
        /\ \A raw \in RawMsgs :
              Cardinality({i \in DOMAIN log : log[i] = raw}) = Cardinality(Callers(raw))

\* Three calls given "junk", "r_alice" and "junk" have ended, the last of
\* them logged first.
C11_Witness ==
    /\ AllDone("recv")
    /\ str(th["t1"].arg) = "junk" /\ str(th["t2"].arg) = "r_alice"
    /\ str(th["t3"].arg) = "junk"
    /\ log = <<"junk", "r_alice", "junk">>
    /\ th["t1"].pc = "done" /\ th["t2"].result = "returned"

\* What the lookup of recv may give for addr in the registries jreg and
\* creg: the recipient, None, or an exception.
ResolveIn(jreg, creg, addr) ==
    LET ofType == {k \in DOMAIN jreg : Len(addr.v) > 0 /\ k.v[1] = addr.v[1]}
    IN  IF rtuple(Slice(addr, 3)) \in DOMAIN creg
        THEN {[exc |-> FALSE, val |-> creg[rtuple(Slice(addr, 3))]]}
        ELSE IF DOMAIN jreg = {} THEN {[exc |-> FALSE, val |-> NoObj]}
        ELSE IF Len(addr.v) = 0 THEN {[exc |-> TRUE, val |-> NoObj]}
        ELSE IF ofType = {} THEN {[exc |-> FALSE, val |-> NoObj]}
        ELSE {[exc |-> FALSE, val |-> jreg[k]] : k \in ofType}

\* What the lookup of thread t's recv gave.
Resolved(t) ==
    IF th[t].result = "raised" THEN [exc |-> TRUE, val |-> NoObj]
    ELSE [exc |-> FALSE, val |-> th[t].val]

\* C12: a recv of a routed frame that ran while another thread registered a
\* jack or a client resolved its recipient as a recv does in the registries
\* the constructor left or in the registries after the registration; it
\* raised only if a recv raises in one of these.
C12_RegistrationSynchronized ==
    LET f == Frame(str(th["t1"].arg))
    IN  (th["t1"].name = "recv" /\ th["t1"].pc = "done" /\ f.ok /\ IsRouted(f.type)
           /\ th["t2"].name \in {"_loadjack", "_loadclient"} /\ th["t2"].pc = "done")
        => Resolved("t1") \in
               ResolveIn(_loadjacks(EmptyDict, op.lists[1]),
                         _loadclients(EmptyDict, op.lists[2]), f.addr)
                   \cup ResolveIn(_jacks, _clients, f.addr)

\* C17: when run("threaded"), called on a stopped router, and a _loadjack
\* called meanwhile by another thread have both returned and the state is
\* threaded, the jack that was loaded has been started.
C17_LateJoinerStarted ==
    (/\ th["t1"].name = "run" /\ th["t1"].arg = "threaded"
     /\ th["t1"].pc = "done" /\ th["t1"].result = "returned"
     /\ th["t2"].name = "_loadjack"
     /\ th["t2"].pc = "done" /\ th["t2"].result = "returned"
     /\ runstate = "threaded")
    => running[th["t2"].arg]

====
